---- MODULE Spec2Model ----
(***************************************************************************)
(* PipelineRunner of narps_open (src/narps_open/runner.py).                *)
(*                                                                         *)
(* The runner holds a team key and the pipeline instantiated for it; the   *)
(* pipeline holds the cohort (subject_list).  The property setters, the    *)
(* audits and start() are the operations.  Text is a sequence of one-char  *)
(* strings, so that int(), str() and zfill() are computed character by     *)
(* character as Python computes them.                                      *)
(***************************************************************************)
EXTENDS Integers, Sequences, FiniteSets, TLC

VARIABLES
    _team_id,       \* PipelineRunner._team_id
    _pipeline,      \* PipelineRunner._pipeline: [cls, subject_list]
    imported,       \* team whose module the last operation imported, or None
    constructed,    \* class the last operation instantiated, or None
    lastOp,         \* the last operation called on the runner, with its arguments
    lastError,      \* the exception that operation raised, or "none"
    pc,             \* position of the control thread inside start()
    workflow_list,  \* start(): local workflow_list
    calls,          \* start(): stage producers of the pipeline called so far
    nb_procs,       \* start(): local nb_procs
    si,             \* start(): index of the stage the outer loop is at
    ei,             \* start(): index of the element the inner loop is at
    started,        \* start(): units of work whose run() was called, in order
    returned,       \* start(): units of work whose run() returned normally
    outputs,        \* the lists of expected files the held pipeline keeps, per stage
    files,          \* the paths that exist as files
    report          \* what the last audit returned

runnerVars == <<_team_id, _pipeline, imported, constructed>>
startVars == <<pc, workflow_list, calls, nb_procs, si, ei, started, returned>>
auditVars == <<outputs, files, report>>
vars == <<_team_id, _pipeline, imported, constructed, lastOp, lastError,
          pc, workflow_list, calls, nb_procs, si, ei, started, returned,
          outputs, files, report>>

(***************************************************************************)
(* Bounds                                                                  *)
(***************************************************************************)
MaxLen == 3         \* longest explicit subject list
MaxCoreLen == 2     \* longest explicit subject list over the smaller alphabet
MaxK == 2           \* largest count given to random_nb_subjects / nb_subjects
MaxUnits == 2       \* longest list-valued stage
MaxProcs == 2       \* largest configured nb_procs
MaxDeclared == 5    \* longest list of expected files a pipeline comes to keep

None == "None"

(***************************************************************************)
(* Python text and number conversions                                      *)
(***************************************************************************)
Digits == <<"0", "1", "2", "3", "4", "5", "6", "7", "8", "9">>

IsDigit(c) == \E d \in 1..10 : Digits[d] = c

DigitVal(c) == (CHOOSE d \in 1..10 : Digits[d] = c) - 1

RECURSIVE ParseNat(_)
ParseNat(s) ==
    IF s = <<>> THEN 0
    ELSE ParseNat(SubSeq(s, 1, Len(s) - 1)) * 10 + DigitVal(s[Len(s)])

AllDigits(s) == s # <<>> /\ \A i \in 1..Len(s) : IsDigit(s[i])

\* A raw identifier is a Python int (kind "int", val) or a Python str (kind "str", txt).
IntRaw(n) == [kind |-> "int", val |-> n, txt |-> <<>>]
StrRaw(s) == [kind |-> "str", val |-> 0, txt |-> s]

\* int(x) raises ValueError on a str that is not an optionally signed decimal.
IntDefined(x) ==
    \/ x.kind = "int"
    \/ AllDigits(x.txt)
    \/ x.txt # <<>> /\ Head(x.txt) = "-" /\ AllDigits(Tail(x.txt))

int(x) ==
    IF x.kind = "int" THEN x.val
    ELSE IF Head(x.txt) = "-" THEN 0 - ParseNat(Tail(x.txt))
    ELSE ParseNat(x.txt)

RECURSIVE StrNat(_)
StrNat(n) ==
    IF n < 10 THEN <<Digits[n + 1]>>
    ELSE StrNat(n \div 10) \o <<Digits[(n % 10) + 1]>>

str(n) == IF n < 0 THEN <<"-">> \o StrNat(0 - n) ELSE StrNat(n)

Zeros(n) == [i \in 1..n |-> "0"]

\* str.zfill(width): pad with zeros on the left, after the sign if there is one.
zfill(s, width) ==
    IF Len(s) >= width THEN s
    ELSE IF s # <<>> /\ Head(s) = "-"
         THEN <<"-">> \o Zeros(width - Len(s)) \o Tail(s)
         ELSE Zeros(width - Len(s)) \o s

\* str(int(subject_id)).zfill(3)
Canonical(subject_id) == zfill(str(int(subject_id)), 3)

Range(s) == {s[i] : i \in 1..Len(s)}

RECURSIVE FromKeys_KeepLast(_)
FromKeys_KeepLast(l) ==
    IF l = <<>> THEN <<>>
    ELSE LET rest == FromKeys_KeepLast(Tail(l))
         IN IF Head(l) \in Range(rest) THEN rest ELSE <<Head(l)>> \o rest

\* list(dict.fromkeys(l)): keep the first occurrence of each element, in order.
RECURSIVE FromKeys(_)
FromKeys(l) ==
    IF l = <<>> THEN <<>>
    ELSE LET init == FromKeys(SubSeq(l, 1, Len(l) - 1))
             x == l[Len(l)]
         IN IF \E i \in 1..Len(init) : init[i] = x THEN init ELSE Append(init, x)

SeqsUpTo(S, n) == UNION {[1..m -> S] : m \in 0..n}

(***************************************************************************)
(* Collaborators: pipeline registry and participant registry               *)
(***************************************************************************)
\* narps_open.pipelines.implemented_pipelines: team key -> class name or None
implemented_pipelines ==
    [t \in {"2T6S", "C88N", "08MQ"} |->
        IF t = "2T6S" THEN "PipelineTeam2T6S"
        ELSE IF t = "C88N" THEN "PipelineTeamC88N"
        ELSE None]

TeamKeys == {"2T6S", "C88N", "08MQ", ""}

P001 == <<"0", "0", "1">>
P002 == <<"0", "0", "2">>
P003 == <<"0", "0", "3">>
P004 == <<"0", "0", "4">>

get_all_participants == <<P001, P002, P003, P004>>

\* The pool usable for a team; the description of a team that does not exist
\* cannot be loaded.
ParticipantsDefined(team) == team \in DOMAIN implemented_pipelines

get_participants(team) ==
    IF team = "2T6S" THEN <<P001, P002, P003>>
    ELSE IF team = "C88N" THEN <<P001, P002, P004>>
    ELSE <<P003, P004>>

SubsetOrder == <<P003, P001, P004, P002>>

Min(a, b) == IF a < b THEN a ELSE b

get_participants_subset(nb) == SubSeq(SubsetOrder, 1, Min(nb, Len(SubsetOrder)))

\* The expected files a new pipeline of the class declares for each stage
DeclaredOutputs(cls) ==
    [preprocessing |-> <<"pre.nii">>,
     run_level |-> <<"run.nii">>,
     subject_level |-> <<"sub.nii">>,
     group_level |-> <<"grp_1.nii", "grp_2.nii">>]

\* Whether the get_*_outputs() of the class hand out the list the pipeline
\* keeps, or build a new list at each call.
ReturnsStoredList(cls) == cls = "PipelineTeamC88N"

AllPaths == {"pre.nii", "run.nii", "sub.nii", "grp_1.nii", "grp_2.nii"}

\* class_type(): a fresh pipeline object of the class, with the default cohort.
NewPipeline(cls) == [cls |-> cls, subject_list |-> <<>>]

(***************************************************************************)
(* Operations of the runner                                                *)
(***************************************************************************)
NoArgs == [op |-> "none", key |-> "", ids |-> <<>>, n |-> 0, fl |-> FALSE, gl |-> FALSE]

Op(name) == [NoArgs EXCEPT !.op = name]

Idle == pc = "idle"

\* State after PipelineRunner(team_id) returned; a constructor call that raises
\* leaves no runner behind.
Init ==
    /\ \E t \in {k \in DOMAIN implemented_pipelines : implemented_pipelines[k] # None} :
        /\ _team_id = t
        /\ _pipeline = NewPipeline(implemented_pipelines[t])
        /\ imported = t
        /\ constructed = implemented_pipelines[t]
    /\ lastOp = NoArgs
    /\ lastError = "none"
    /\ pc = "idle"
    /\ workflow_list = <<>>
    /\ calls = <<>>
    /\ nb_procs = 1
    /\ si = 1
    /\ ei = 1
    /\ started = <<>>
    /\ returned = <<>>
    /\ outputs = DeclaredOutputs(_pipeline.cls)
    /\ files = {}
    /\ report = <<>>

TeamIdSet_NoNoneCheck(value) ==
    /\ Idle
    /\ lastOp' = [Op("team_id") EXCEPT !.key = value]
    /\ _team_id' = value
    /\ IF value \notin DOMAIN implemented_pipelines
       THEN /\ lastError' = "KeyError"
            /\ imported' = None
            /\ constructed' = None
            /\ UNCHANGED <<_pipeline, outputs>>
       ELSE IF implemented_pipelines[value] = None
       THEN /\ lastError' = "TypeError"
            /\ imported' = value
            /\ constructed' = None
            /\ UNCHANGED <<_pipeline, outputs>>
       ELSE /\ lastError' = "none"
            /\ imported' = value
            /\ constructed' = implemented_pipelines[value]
            /\ outputs' = DeclaredOutputs(implemented_pipelines[value])
            /\ _pipeline' = NewPipeline(implemented_pipelines[value])
    /\ UNCHANGED startVars
    /\ UNCHANGED <<files, report>>

TeamIdSet_KeepCohort(value) ==
    /\ Idle
    /\ lastOp' = [Op("team_id") EXCEPT !.key = value]
    /\ _team_id' = value
    /\ IF value \notin DOMAIN implemented_pipelines
       THEN /\ lastError' = "KeyError"
            /\ imported' = None
            /\ constructed' = None
            /\ UNCHANGED <<_pipeline, outputs>>
       ELSE IF implemented_pipelines[value] = None
       THEN /\ lastError' = "NotImplementedError"
            /\ imported' = None
            /\ constructed' = None
            /\ UNCHANGED <<_pipeline, outputs>>
       ELSE /\ lastError' = "none"
            /\ imported' = value
            /\ constructed' = implemented_pipelines[value]
            /\ outputs' = DeclaredOutputs(implemented_pipelines[value])
            /\ _pipeline' = [_pipeline EXCEPT !.cls = implemented_pipelines[value]]
    /\ UNCHANGED startVars
    /\ UNCHANGED <<files, report>>

\* team_id setter
TeamIdSet(value) ==
    /\ Idle
    /\ lastOp' = [Op("team_id") EXCEPT !.key = value]
    /\ _team_id' = value
    /\ IF value \notin DOMAIN implemented_pipelines
       THEN /\ lastError' = "KeyError"
            /\ imported' = None
            /\ constructed' = None
            /\ UNCHANGED <<_pipeline, outputs>>
       ELSE IF implemented_pipelines[value] = None
       THEN /\ lastError' = "NotImplementedError"
            /\ imported' = None
            /\ constructed' = None
            /\ UNCHANGED <<_pipeline, outputs>>
       ELSE /\ lastError' = "none"
            /\ imported' = value
            /\ constructed' = implemented_pipelines[value]
            /\ outputs' = DeclaredOutputs(implemented_pipelines[value])
            /\ _pipeline' = NewPipeline(implemented_pipelines[value])
    /\ UNCHANGED startVars
    /\ UNCHANGED <<files, report>>

\* The cohort the subjects setter assigns
NewSubjectList(value) == FromKeys([i \in 1..Len(value) |-> Canonical(value[i])])

SubjectsError_NoMembership(value) ==
    IF \E i \in 1..Len(value) : ~IntDefined(value[i]) THEN "ValueError" ELSE "none"

\* What the validation loop of the subjects setter raises: it stops at the
\* first identifier that int() rejects (ValueError) or whose canonical form is
\* no participant (AttributeError).
SubjectsError(value) ==
    LET all_participants == Range(get_all_participants)
        Stops(i) == \/ ~IntDefined(value[i])
                    \/ Canonical(value[i]) \notin all_participants
        bad == {i \in 1..Len(value) : Stops(i)}
    IN IF bad = {} THEN "none"
       ELSE LET first == CHOOSE i \in bad : \A j \in bad : i <= j
            IN IF IntDefined(value[first]) THEN "AttributeError" ELSE "ValueError"

\* subjects setter
SubjectsSet(value) ==
    /\ Idle
    /\ lastOp' = [Op("subjects") EXCEPT !.ids = value]
    /\ lastError' = SubjectsError(value)
    /\ IF SubjectsError(value) # "none"
       THEN UNCHANGED _pipeline
       ELSE _pipeline' = [_pipeline EXCEPT !.subject_list = NewSubjectList(value)]
    /\ imported' = None
    /\ constructed' = None
    /\ UNCHANGED _team_id
    /\ UNCHANGED startVars
    /\ UNCHANGED auditVars

\* random_nb_subjects setter; draw is what random.choices picked
RandomNbSubjectsSet(value, draw) ==
    /\ Idle
    /\ lastOp' = [Op("random_nb_subjects") EXCEPT !.n = value]
    /\ IF ~ParticipantsDefined(_team_id)
       THEN /\ draw = <<>>
            /\ lastError' = "AttributeError"
            /\ UNCHANGED _pipeline
       ELSE /\ draw \in [1..value -> Range(get_participants(_team_id))]
            /\ lastError' = "none"
            /\ _pipeline' = [_pipeline EXCEPT !.subject_list = draw]
    /\ imported' = None
    /\ constructed' = None
    /\ UNCHANGED _team_id
    /\ UNCHANGED startVars
    /\ UNCHANGED auditVars

NbSubjectsSet_Extend(value) ==
    /\ Idle
    /\ lastOp' = [Op("nb_subjects") EXCEPT !.n = value]
    /\ lastError' = "none"
    /\ _pipeline' = [_pipeline EXCEPT !.subject_list =
            FromKeys(_pipeline.subject_list \o get_participants_subset(value))]
    /\ imported' = None
    /\ constructed' = None
    /\ UNCHANGED _team_id
    /\ UNCHANGED startVars
    /\ UNCHANGED auditVars

\* nb_subjects setter
NbSubjectsSet(value) ==
    /\ Idle
    /\ lastOp' = [Op("nb_subjects") EXCEPT !.n = value]
    /\ lastError' = "none"
    /\ _pipeline' = [_pipeline EXCEPT !.subject_list = get_participants_subset(value)]
    /\ imported' = None
    /\ constructed' = None
    /\ UNCHANGED _team_id
    /\ UNCHANGED startVars
    /\ UNCHANGED auditVars

(***************************************************************************)
(* start()                                                                 *)
(***************************************************************************)
\* What a stage producer of the pipeline returns: None, one object, or a list
\* of objects; an object is a nipype Workflow or something else.
UnitKinds == {"Workflow", "other"}

Realizations ==
    {[shape |-> "none", units |-> <<>>]}
        \cup {[shape |-> "single", units |-> <<k>>] : k \in UnitKinds}
        \cup {[shape |-> "list", units |-> u] : u \in SeqsUpTo(UnitKinds, MaxUnits)}

\* Configuration()['runner']['nb_procs']
NbProcsValues == 1..MaxProcs

\* The stage producers start() calls for the requested scope, in call order.
Producers_GroupAlways(first_level_only, group_level_only) ==
    (IF ~group_level_only
     THEN <<"get_preprocessing", "get_run_level_analysis", "get_subject_level_analysis">>
     ELSE <<>>)
    \o <<"get_group_level_analysis">>

Producers(first_level_only, group_level_only) ==
    (IF ~group_level_only
     THEN <<"get_preprocessing", "get_run_level_analysis", "get_subject_level_analysis">>
     ELSE <<>>)
    \o (IF ~first_level_only THEN <<"get_group_level_analysis">> ELSE <<>>)

\* isinstance(x, Workflow)
IsWorkflow(kind) == kind = "Workflow"

Unit_AtLeastOne(stage, elem, procs) ==
    [stage |-> stage, elem |-> elem,
     plugin |-> IF procs >= 1 THEN "MultiProc" ELSE "default",
     n_procs |-> IF procs >= 1 THEN procs ELSE 0]

\* The unit of work the loops are at, and the way its run() is called.
Unit(stage, elem, procs) ==
    [stage |-> stage, elem |-> elem,
     plugin |-> IF procs > 1 THEN "MultiProc" ELSE "default",
     n_procs |-> IF procs > 1 THEN procs ELSE 0]

Start_NoScopeCheck(first_level_only, group_level_only) ==
    /\ Idle
    /\ lastOp' = [Op("start") EXCEPT !.fl = first_level_only, !.gl = group_level_only]
    /\ workflow_list' = <<>>
    /\ calls' = <<>>
    /\ started' = <<>>
    /\ returned' = <<>>
    /\ si' = 1
    /\ ei' = 1
    /\ nb_procs' = 1
    /\ lastError' = "none"
    /\ pc' = "assemble"
    /\ UNCHANGED runnerVars
    /\ UNCHANGED auditVars

\* start(first_level_only, group_level_only), up to the first stage producer
Start(first_level_only, group_level_only) ==
    /\ Idle
    /\ lastOp' = [Op("start") EXCEPT !.fl = first_level_only, !.gl = group_level_only]
    /\ workflow_list' = <<>>
    /\ calls' = <<>>
    /\ started' = <<>>
    /\ returned' = <<>>
    /\ si' = 1
    /\ ei' = 1
    /\ nb_procs' = 1
    /\ IF first_level_only /\ group_level_only
       THEN /\ lastError' = "AttributeError"
            /\ pc' = "idle"
       ELSE /\ lastError' = "none"
            /\ pc' = "assemble"
    /\ UNCHANGED runnerVars
    /\ UNCHANGED auditVars

\* The next stage producer of the pipeline is called and returns r
CallProducer(r) ==
    /\ pc = "assemble"
    /\ LET todo == Producers(lastOp.fl, lastOp.gl)
       IN /\ Len(calls) < Len(todo)
          /\ calls' = Append(calls, todo[Len(calls) + 1])
          /\ workflow_list' = Append(workflow_list,
                 [producer |-> todo[Len(calls) + 1], shape |-> r.shape, units |-> r.units])
    /\ UNCHANGED <<pc, nb_procs, si, ei, started, returned, lastOp, lastError>>
    /\ UNCHANGED runnerVars
    /\ UNCHANGED auditVars

ReadNbProcs_Early(procs) ==
    /\ pc = "assemble"
    /\ Len(calls) >= 1
    /\ nb_procs' = procs
    /\ pc' = "launch"
    /\ UNCHANGED <<calls, workflow_list, si, ei, started, returned, lastOp, lastError>>
    /\ UNCHANGED runnerVars
    /\ UNCHANGED auditVars

\* nb_procs = Configuration()['runner']['nb_procs'], once the list is assembled
ReadNbProcs(procs) ==
    /\ pc = "assemble"
    /\ Len(calls) = Len(Producers(lastOp.fl, lastOp.gl))
    /\ nb_procs' = procs
    /\ pc' = "launch"
    /\ UNCHANGED <<calls, workflow_list, si, ei, started, returned, lastOp, lastError>>
    /\ UNCHANGED runnerVars
    /\ UNCHANGED auditVars

\* One pass of the loops over workflow_list, up to the call of run()
Launch ==
    /\ pc = "launch"
    /\ IF si > Len(workflow_list)
       THEN /\ pc' = "idle"
            /\ UNCHANGED <<si, ei, started, lastError>>
       ELSE LET workflow == workflow_list[si]
            IN IF workflow.shape = "none"
               THEN /\ si' = si + 1
                    /\ UNCHANGED <<pc, ei, started, lastError>>
               ELSE IF workflow.shape = "list"
               THEN IF ei > Len(workflow.units)
                    THEN /\ si' = si + 1
                         /\ ei' = 1
                         /\ UNCHANGED <<pc, started, lastError>>
                    ELSE IF ~IsWorkflow(workflow.units[ei])
                    THEN /\ lastError' = "AttributeError"
                         /\ pc' = "idle"
                         /\ UNCHANGED <<si, ei, started>>
                    ELSE /\ started' = Append(started, Unit(si, ei, nb_procs))
                         /\ pc' = "running"
                         /\ UNCHANGED <<si, ei, lastError>>
               ELSE IF ~IsWorkflow(workflow.units[1])
                    THEN /\ lastError' = "AttributeError"
                         /\ pc' = "idle"
                         /\ UNCHANGED <<si, ei, started>>
                    ELSE /\ started' = Append(started, Unit(si, 1, nb_procs))
                         /\ pc' = "running"
                         /\ UNCHANGED <<si, ei, lastError>>
    /\ UNCHANGED <<workflow_list, calls, nb_procs, returned, lastOp>>
    /\ UNCHANGED runnerVars
    /\ UNCHANGED auditVars

\* Where the loops go on once run() returned: the next element of a list-valued
\* stage, or the next stage after a single unit.
AfterRun_NextStage(shape, stage, elem) == <<stage + 1, 1>>

AfterRun(shape, stage, elem) ==
    IF shape = "list" THEN <<stage, elem + 1>> ELSE <<stage + 1, elem>>

RunReturn_Swallow(ok) ==
    /\ pc = "running"
    /\ pc' = "launch"
    /\ si' = AfterRun(workflow_list[si].shape, si, ei)[1]
    /\ ei' = AfterRun(workflow_list[si].shape, si, ei)[2]
    /\ IF ok
       THEN /\ returned' = Append(returned, started[Len(started)])
            /\ UNCHANGED lastError
       ELSE /\ lastError' = "RunError"
            /\ UNCHANGED returned
    /\ UNCHANGED <<workflow_list, calls, nb_procs, started, lastOp>>
    /\ UNCHANGED runnerVars
    /\ UNCHANGED auditVars

\* run() of the unit of work returns, or raises
RunReturn(ok) ==
    /\ pc = "running"
    /\ IF ok
       THEN /\ returned' = Append(returned, started[Len(started)])
            /\ pc' = "launch"
            /\ si' = AfterRun(workflow_list[si].shape, si, ei)[1]
            /\ ei' = AfterRun(workflow_list[si].shape, si, ei)[2]
            /\ UNCHANGED lastError
       ELSE /\ lastError' = "RunError"
            /\ pc' = "idle"
            /\ UNCHANGED <<si, ei, returned>>
    /\ UNCHANGED <<workflow_list, calls, nb_procs, started, lastOp>>
    /\ UNCHANGED runnerVars
    /\ UNCHANGED auditVars

(***************************************************************************)
(* Audits                                                                  *)
(***************************************************************************)
\* os.path.isfile
isfile(f) == f \in files

\* [f for f in l if not isfile(f)]
Missing(l) ==
    LET absent(f) == ~isfile(f)
    IN SelectSeq(l, absent)

\* get_missing_first_level_outputs(): `files += ...` extends in place the list
\* get_preprocessing_outputs() returned, which is the pipeline's own list
\* when the pipeline hands that out.
GetMissingFirstLevelOutputs ==
    /\ Idle
    /\ LET all == outputs.preprocessing \o outputs.run_level \o outputs.subject_level
       IN /\ ReturnsStoredList(_pipeline.cls) => Len(all) <= MaxDeclared
          /\ report' = Missing(all)
          /\ outputs' = IF ReturnsStoredList(_pipeline.cls)
                        THEN [outputs EXCEPT !.preprocessing = all]
                        ELSE outputs
    /\ lastOp' = Op("get_missing_first_level_outputs")
    /\ lastError' = "none"
    /\ imported' = None
    /\ constructed' = None
    /\ UNCHANGED <<_team_id, _pipeline, files>>
    /\ UNCHANGED startVars

\* get_missing_group_level_outputs()
GetMissingGroupLevelOutputs ==
    /\ Idle
    /\ report' = Missing(outputs.group_level)
    /\ lastOp' = Op("get_missing_group_level_outputs")
    /\ lastError' = "none"
    /\ imported' = None
    /\ constructed' = None
    /\ UNCHANGED <<_team_id, _pipeline, files, outputs>>
    /\ UNCHANGED startVars

\* A file appears on the filesystem (an executed unit of work wrote it).
CreateFile(f) ==
    /\ Idle
    /\ f \notin files
    /\ files' = files \cup {f}
    /\ lastOp' = Op("create_file")
    /\ UNCHANGED <<lastError, outputs, report>>
    /\ UNCHANGED runnerVars
    /\ UNCHANGED startVars

\* A file is deleted.
DeleteFile(f) ==
    /\ Idle
    /\ f \in files
    /\ files' = files \ {f}
    /\ lastOp' = Op("delete_file")
    /\ UNCHANGED <<lastError, outputs, report>>
    /\ UNCHANGED runnerVars
    /\ UNCHANGED startVars

(***************************************************************************)
(* Inputs                                                                  *)
(***************************************************************************)
\* Raw identifiers given to the subjects setter: three spellings of subject 1,
\* a second subject, and a number that is no participant.
RawIds ==
    { StrRaw(<<"1">>), StrRaw(<<"0", "0", "1">>), IntRaw(1),
      StrRaw(<<"0", "0", "2">>), StrRaw(<<"9">>) }

\* A smaller alphabet: a subject, a number that is no participant, a negative
\* number and a text that is no number.
CoreIds == { StrRaw(<<"1">>), IntRaw(9), StrRaw(<<"-", "1">>), StrRaw(<<"x">>) }

Draws == SeqsUpTo(Range(get_all_participants), MaxK)

\* The property setters of the runner, called in any order.
Next ==
    \/ \E value \in TeamKeys : TeamIdSet(value)
    \/ \E value \in SeqsUpTo(CoreIds, MaxCoreLen) : SubjectsSet(value)
    \/ \E value \in 0..MaxK : \E draw \in Draws : RandomNbSubjectsSet(value, draw)
    \/ \E value \in 0..MaxK : NbSubjectsSet(value)

Spec == Init /\ [][Next]_vars

\* Explicit selection over every spelling, with the subset selection to vary
\* the cohort it replaces.
NextExplicit ==
    \/ \E value \in SeqsUpTo(RawIds, MaxLen) : SubjectsSet(value)
    \/ \E value \in 0..MaxK : NbSubjectsSet(value)

\* The explicit selection does not read the team: one runner is enough.
InitExplicit == Init /\ _team_id = "2T6S"

SpecExplicit == InitExplicit /\ [][NextExplicit]_vars

\* start() called on the runner, step by step.
NextStart ==
    \/ \E first_level_only \in BOOLEAN : \E group_level_only \in BOOLEAN :
            Start(first_level_only, group_level_only)
    \/ \E r \in Realizations : CallProducer(r)
    \/ \E procs \in NbProcsValues : ReadNbProcs(procs)
    \/ Launch
    \/ \E ok \in BOOLEAN : RunReturn(ok)

SpecStart == Init /\ [][NextStart]_vars

\* Audits of a runner while files appear and disappear, with the subset
\* selection to vary the cohort.
NextAudit ==
    \/ GetMissingFirstLevelOutputs
    \/ GetMissingGroupLevelOutputs
    \/ \E f \in AllPaths : CreateFile(f)
    \/ \E f \in AllPaths : DeleteFile(f)
    \/ \E value \in 0..MaxK : NbSubjectsSet(value)

SpecAudit == Init /\ [][NextAudit]_vars

(***************************************************************************)
(* Properties of start()                                                   *)
(***************************************************************************)
InFlight == started[Len(started)]

HasReturned(stage, elem) ==
    \E j \in 1..Len(returned) : returned[j].stage = stage /\ returned[j].elem = elem

NoDuplicates(s) == \A i \in 1..Len(s) : \A j \in 1..Len(s) : s[i] = s[j] => i = j

\* C1: the stages run in the order they were assembled: while a unit of work
\* is running, every unit of every earlier stage has returned, at most one
\* unit is in flight, the units were started in stage order, no unit belongs
\* to a stage that is None, and the invalid-work-unit error never comes from
\* a None stage.
C1_StagesInSequence ==
    /\ \A k \in 1..Len(started) :
          /\ workflow_list[started[k].stage].shape # "none"
          /\ \A j \in 1..k : started[j].stage <= started[k].stage
    /\ Len(started) - Len(returned) \in {0, 1}
    /\ pc = "running" =>
          \A stage \in 1..(InFlight.stage - 1) :
              \A elem \in 1..Len(workflow_list[stage].units) : HasReturned(stage, elem)
    /\ (pc = "idle" /\ lastError = "AttributeError" /\ workflow_list # <<>>) =>
          workflow_list[si].shape # "none"

\* A unit of the last stage is running after a None stage was skipped and
\* both units of a list-valued stage returned.
C1_Witness ==
    /\ pc = "running"
    /\ Len(workflow_list) = 4
    /\ InFlight.stage = 4
    /\ \E stage \in 1..3 : workflow_list[stage].shape = "none"
    /\ \E stage \in 1..3 :
          /\ workflow_list[stage].shape = "list"
          /\ Len(workflow_list[stage].units) = 2
          /\ HasReturned(stage, 2)

\* C2: when start() fails on a non-conforming element of a list-valued
\* stage, no element of that stage has been executed.
C2_NoElementOfStageExecuted ==
    (/\ lastOp.op = "start"
     /\ pc = "idle"
     /\ lastError = "AttributeError"
     /\ ~(lastOp.fl /\ lastOp.gl)
     /\ workflow_list[si].shape = "list")
        => \A k \in 1..Len(started) : started[k].stage # si

\* C3: when run() of a unit of work raises, start() is left with that error:
\* every unit started before the failed one had returned, the failed unit is
\* the last one ever started, it is the unit the loops were at, and no unit
\* was started twice.
C3_RunErrorAborts ==
    lastError = "RunError" =>
        /\ pc = "idle"
        /\ Len(started) = Len(returned) + 1
        /\ \A j \in 1..Len(returned) : returned[j] = started[j]
        /\ InFlight.stage = si
        /\ InFlight.elem = ei
        /\ NoDuplicates(started)

\* The second element of a list-valued stage raised while later elements and
\* later stages were still to run.
C3_Witness ==
    /\ lastError = "RunError"
    /\ Len(workflow_list) = 4
    /\ si = 1
    /\ workflow_list[1].shape = "list"
    /\ Len(workflow_list[1].units) = 2
    /\ InFlight.elem = 1
    /\ workflow_list[2].shape = "single"
    /\ IsWorkflow(workflow_list[2].units[1])

\* C9: start(True, True) fails with AttributeError before anything runs: no
\* stage producer was called and no unit of work was started.
C9_BothScopesRejected ==
    (lastOp.op = "start" /\ lastOp.fl /\ lastOp.gl) =>
        /\ lastError = "AttributeError"
        /\ pc = "idle"
        /\ calls = <<>>
        /\ workflow_list = <<>>
        /\ started = <<>>

C9_Witness ==
    /\ lastOp.op = "start"
    /\ lastOp.fl
    /\ lastOp.gl
    /\ lastError = "AttributeError"

StageNames == [i \in 1..Len(workflow_list) |-> workflow_list[i].producer]

\* C10: once assembled, the stage list is [preprocessing, run level, subject
\* level, group level] for the full scope, the first three for
\* first_level_only and the group level alone for group_level_only.
C10_StageList ==
    (lastOp.op = "start" /\ pc \in {"launch", "running"}) =>
        /\ (~lastOp.fl /\ ~lastOp.gl) =>
              StageNames = <<"get_preprocessing", "get_run_level_analysis",
                             "get_subject_level_analysis", "get_group_level_analysis">>
        /\ (lastOp.fl /\ ~lastOp.gl) =>
              StageNames = <<"get_preprocessing", "get_run_level_analysis",
                             "get_subject_level_analysis">>
        /\ (~lastOp.fl /\ lastOp.gl) => StageNames = <<"get_group_level_analysis">>
        /\ StageNames = calls

C10_Witness ==
    /\ lastOp.op = "start"
    /\ lastOp.fl
    /\ pc = "running"
    /\ Len(workflow_list) = 3
    /\ InFlight.stage = 3

(***************************************************************************)
(* Properties of the team and cohort setters                               *)
(***************************************************************************)
subject_list == _pipeline.subject_list

\* C4: the pipeline the runner holds is the implementation registered for
\* its current team_id.
C4_PipelineMatchesTeam ==
    /\ _team_id \in DOMAIN implemented_pipelines
    /\ _pipeline.cls = implemented_pipelines[_team_id]

\* C5: assigning a key that is not in the registry raises KeyError, assigning
\* a key the registry maps to None raises NotImplementedError, and in both
\* cases the assignment imports no module, constructs no pipeline and leaves
\* the held pipeline as it was.
C5_FailedAssignment ==
    [][lastOp'.op = "team_id" =>
          /\ lastOp'.key \notin {"2T6S", "C88N", "08MQ"} =>
                /\ lastError' = "KeyError"
                /\ imported' = None
                /\ constructed' = None
                /\ _pipeline' = _pipeline
          /\ lastOp'.key = "08MQ" =>
                /\ lastError' = "NotImplementedError"
                /\ imported' = None
                /\ constructed' = None
                /\ _pipeline' = _pipeline]_vars

\* A runner of team 2T6S holding a cohort was assigned the unimplemented team.
C5_Witness ==
    /\ lastOp.op = "team_id"
    /\ lastOp.key = "08MQ"
    /\ lastError = "NotImplementedError"
    /\ _pipeline.cls = "PipelineTeam2T6S"
    /\ subject_list # <<>>

\* C6: no identifier occurs twice in the cohort.
C6_CohortUnique == NoDuplicates(subject_list)

IsParticipant(id) == \E i \in 1..Len(get_all_participants) : get_all_participants[i] = id

\* C7: an explicit selection all of whose identifiers denote integers and one
\* of which has a canonical form that is no participant raises
\* AttributeError and leaves the pipeline, cohort included, as it was.
C7_InvalidSubjectRejected ==
    [][(/\ lastOp'.op = "subjects"
        /\ \A i \in 1..Len(lastOp'.ids) : IntDefined(lastOp'.ids[i])
        /\ \E i \in 1..Len(lastOp'.ids) :
              ~IsParticipant(zfill(str(int(lastOp'.ids[i])), 3)))
          => /\ lastError' = "AttributeError"
             /\ _pipeline' = _pipeline]_vars

\* ["1", 9] was selected on a runner holding a cohort of two: the valid first
\* identifier was not assigned.
C7_Witness ==
    /\ lastOp.op = "subjects"
    /\ lastOp.ids = <<StrRaw(<<"1">>), IntRaw(9)>>
    /\ lastError = "AttributeError"
    /\ Len(subject_list) = 2

\* Index of the first identifier of ids that denotes the number n
FirstIndex(ids, n) ==
    CHOOSE i \in 1..Len(ids) : int(ids[i]) = n /\ \A j \in 1..(i - 1) : int(ids[j]) # n

\* The cohort c holds, once each and in order of first occurrence, the
\* 3-digit spellings of the numbers the identifiers ids denote.
IsCanonicalCohortOf(c, ids) ==
    /\ \A k \in 1..Len(c) : Len(c[k]) = 3 /\ AllDigits(c[k])
    /\ {ParseNat(c[k]) : k \in 1..Len(c)} = {int(ids[i]) : i \in 1..Len(ids)}
    /\ \A p \in 1..Len(c) : \A q \in 1..Len(c) :
          p < q => FirstIndex(ids, ParseNat(c[p])) < FirstIndex(ids, ParseNat(c[q]))

\* C8: a successful explicit selection sets the cohort to the canonical forms
\* of its identifiers, duplicates collapsed and first occurrences kept in
\* order; selecting the resulting cohort again leaves it as it is.
C8_ExplicitSelection ==
    /\ []((lastOp.op = "subjects" /\ lastError = "none") =>
              IsCanonicalCohortOf(subject_list, lastOp.ids))
    /\ [][(/\ lastOp.op = "subjects"
           /\ lastError = "none"
           /\ lastOp'.op = "subjects"
           /\ lastOp'.ids = [k \in 1..Len(subject_list) |-> StrRaw(subject_list[k])])
             => /\ lastError' = "none"
                /\ _pipeline' = _pipeline]_vars

\* The three spellings of subject 1 were selected and gave one element.
C8_Witness ==
    /\ lastOp.op = "subjects"
    /\ lastOp.ids = <<StrRaw(<<"1">>), StrRaw(<<"0", "0", "1">>), IntRaw(1)>>
    /\ lastError = "none"
    /\ subject_list = <<P001>>

(***************************************************************************)
(* Further properties of start()                                           *)
(***************************************************************************)
\* C11: every unit of work of one start() call is run the same way, decided
\* by nb_procs alone: with MultiProc and n_procs = nb_procs when nb_procs > 1,
\* with the default (single worker) plugin and no plugin_args otherwise.
C11_OneStrategy ==
    \A k \in 1..Len(started) :
        /\ nb_procs > 1 => started[k].plugin = "MultiProc" /\ started[k].n_procs = nb_procs
        /\ nb_procs <= 1 => started[k].plugin = "default" /\ started[k].n_procs = 0

\* With nb_procs = 2, both elements of a list-valued stage and a single unit
\* were run.
C11_Witness ==
    /\ nb_procs = 2
    /\ \E j \in 1..Len(started) : \E k \in 1..Len(started) :
          /\ workflow_list[started[j].stage].shape = "list"
          /\ started[j].elem = 2
          /\ workflow_list[started[k].stage].shape = "single"

\* C18: every requested stage producer has been called, in the order
\* preprocessing, run level, subject level, group level, before the first
\* unit of work is run; the Workflow check is made on a unit only when the
\* loops reach it, so when it fails every unit before it has been run.
C18_AssembleThenLazyCheck ==
    /\ pc = "assemble" => started = <<>>
    /\ (pc \in {"launch", "running"} \/ started # <<>>) =>
          calls = IF lastOp.gl THEN <<"get_group_level_analysis">>
                  ELSE IF lastOp.fl
                  THEN <<"get_preprocessing", "get_run_level_analysis",
                         "get_subject_level_analysis">>
                  ELSE <<"get_preprocessing", "get_run_level_analysis",
                         "get_subject_level_analysis", "get_group_level_analysis">>
    /\ (pc = "idle" /\ lastError = "AttributeError" /\ ~(lastOp.fl /\ lastOp.gl)) =>
          /\ ~IsWorkflow(workflow_list[si].units[ei])
          /\ \A stage \in 1..(si - 1) :
                \A elem \in 1..Len(workflow_list[stage].units) : HasReturned(stage, elem)
          /\ \A elem \in 1..(ei - 1) : HasReturned(si, elem)
          /\ Len(started) = Len(returned)

\* The group-level stage holds something that is no Workflow: the error came
\* after both units of the first stage and the units of the other stages ran.
C18_Witness ==
    /\ pc = "idle"
    /\ lastError = "AttributeError"
    /\ Len(workflow_list) = 4
    /\ si = 4
    /\ workflow_list[1].shape = "list"
    /\ Len(workflow_list[1].units) = 2
    /\ Len(returned) >= 4

\* C19: the elements of a list-valued stage are run one at a time in list
\* order: an element is started only when all elements before it have
\* returned, the units return in the order they were started, and outside a
\* run() call (unless the last one raised) every started unit has returned.
C19_OneAtATime ==
    /\ \A j \in 1..Len(returned) : returned[j] = started[j]
    /\ \A j \in 1..Len(started) : \A k \in 1..Len(started) :
          (j < k /\ started[j].stage = started[k].stage) =>
              started[j].elem < started[k].elem
    /\ pc = "running" =>
          /\ Len(started) = Len(returned) + 1
          /\ \A elem \in 1..(InFlight.elem - 1) : HasReturned(InFlight.stage, elem)
    /\ (pc # "running" /\ lastError # "RunError") => Len(started) = Len(returned)

\* The second element of a list-valued stage is running.
C19_Witness ==
    /\ pc = "running"
    /\ workflow_list[si].shape = "list"
    /\ InFlight.elem = 2
    /\ HasReturned(si, 1)

(***************************************************************************)
(* Further properties of the team and cohort setters                       *)
(***************************************************************************)
\* The team whose implementation the runner holds
ActiveTeam ==
    CHOOSE t \in {"2T6S", "C88N", "08MQ"} : implemented_pipelines[t] = _pipeline.cls

\* C14: a random selection of size k gives at most k elements, each from the
\* pool of the team whose pipeline the runner holds.
C14_RandomFromActivePool ==
    (lastOp.op = "random_nb_subjects" /\ lastError = "none") =>
        /\ Len(subject_list) <= lastOp.n
        /\ \A i \in 1..Len(subject_list) :
              subject_list[i] \in Range(get_participants(ActiveTeam))

\* C15: a successful team assignment leaves the runner with a newly
\* constructed pipeline of the class registered for the new team, whose
\* cohort is empty.
C15_ReassignmentDiscards ==
    [][(lastOp'.op = "team_id" /\ lastError' = "none") =>
          /\ _team_id' = lastOp'.key
          /\ constructed' = implemented_pipelines[lastOp'.key]
          /\ constructed' # None
          /\ imported' = lastOp'.key
          /\ _pipeline'.cls = constructed'
          /\ _pipeline'.subject_list = <<>>]_vars

\* The runner was moved to team C88N.
C15_Witness ==
    /\ lastOp.op = "team_id"
    /\ lastOp.key = "C88N"
    /\ lastError = "none"
    /\ _pipeline.cls = "PipelineTeamC88N"
    /\ subject_list = <<>>

\* C16: after a successful cohort selection the cohort is not empty and all
\* its members are participants.
C16_SelectionReady ==
    (lastOp.op \in {"subjects", "random_nb_subjects", "nb_subjects"} /\ lastError = "none") =>
        /\ subject_list # <<>>
        /\ \A i \in 1..Len(subject_list) : IsParticipant(subject_list[i])

\* C17: after a successful cohort selection the cohort is what the arguments
\* of that selection give, whatever it was before.
C17_SelectionReplaces ==
    /\ (lastOp.op = "subjects" /\ lastError = "none") =>
          IsCanonicalCohortOf(subject_list, lastOp.ids)
    /\ (lastOp.op = "nb_subjects" /\ lastError = "none") =>
          subject_list = SubSeq(<<P003, P001, P004, P002>>, 1, lastOp.n)
    /\ (lastOp.op = "random_nb_subjects" /\ lastError = "none") =>
          /\ Len(subject_list) = lastOp.n
          /\ \A i \in 1..Len(subject_list) :
                subject_list[i] \in Range(get_participants(_team_id))

\* A subset of one was selected.
C17_Witness ==
    /\ lastOp.op = "nb_subjects"
    /\ lastOp.n = 1
    /\ lastError = "none"
    /\ subject_list = <<P003>>

(***************************************************************************)
(* Properties of the audits                                                *)
(***************************************************************************)
\* The files of the sequence l that do not exist, in the order of l
Absent(l) ==
    LET gone(f) == f \notin files
    IN SelectSeq(l, gone)

\* C12: an audit returns exactly the expected files of its scope that do not
\* exist: each missing file once, nothing when all exist.
C12_AuditExact ==
    /\ lastOp.op = "get_missing_first_level_outputs" =>
          report = Absent(<<"pre.nii", "run.nii", "sub.nii">>)
    /\ lastOp.op = "get_missing_group_level_outputs" =>
          report = Absent(<<"grp_1.nii", "grp_2.nii">>)

\* C13: an audit leaves the team key, the pipeline with its cohort, and the
\* lists of expected files the pipeline keeps as they were.
C13_AuditReadOnly ==
    [][lastOp'.op \in {"get_missing_first_level_outputs", "get_missing_group_level_outputs"} =>
          /\ _team_id' = _team_id
          /\ _pipeline' = _pipeline
          /\ outputs' = outputs
          /\ files' = files]_vars

====
